---- MODULE Spec2Model ----
(***************************************************************************)
(* The relational schema of quran/models.py: the tables Sura, Aya,         *)
(* QuranTranslation, TranslatedAya, Root, Lemma and Word with the          *)
(* constraints the model classes declare (primary key, unique,             *)
(* unique_together, null, ForeignKey with on_delete=CASCADE), the inserts  *)
(* and cascading deletes those declarations admit, and the presentation    *)
(* helpers (__str__, get_absolute_url, end_marker).                        *)
(*                                                                         *)
(* Strings are sequences of Unicode code points.                           *)
(***************************************************************************)
EXTENDS Integers, Sequences, FiniteSets

\* ---- bounds of the model ------------------------------------------------
MaxSura == 2
MaxAyaId == 2
MaxTranslationId == 1
MaxTranslatedAyaId == 2
MaxRootId == 1
MaxLemmaId == 2
MaxWordId == 2
MaxNumber == 2
MaxRows == 6
MaxWordsRows == 7
MaxLen == 2

\* the null reference of a ForeignKey declared null=True
NULL == 0

SuraNumbers == 1..MaxSura
AyaIds == 1..MaxAyaId
TranslationIds == 1..MaxTranslationId
RootIds == 1..MaxRootId
LemmaIds == 1..MaxLemmaId
TranslatedAyaIds == 1..MaxTranslatedAyaId
WordIds == 1..MaxWordId
Numbers == 1..MaxNumber

\* Texts written to the store. The constraints read Root.letters and
\* Lemma.token only (both unique=True); the other text columns are free.
\* Code points: beh, seen, meem; the Latin letters A, l.
Letters == {<<1576>>}
Tokens == {<<1576>>, <<1587, 1605>>}
LatinNames == {<<65, 108>>}

\* Texts of the instances that are rendered: every string of at most MaxLen
\* code points over alef, beh, seen, meem and the Latin letter b.
Alphabet == {1575, 1576, 1587, 1605, 98}
ViewTexts == UNION {[1..n -> Alphabet] : n \in 0..MaxLen}

\* suras .. words: the rows of the seven tables, each row a record of the
\*     columns the constraints and the helpers read (Sura is keyed by its
\*     number, every other row by its id);
\* last: the operation that ran last on the store and its outcome;
\* subject: the instance handed to a presentation helper;
\* rendered: the helper that ran on it and the value it returned.
VARIABLES suras, ayas, translations, translatedAyas, roots, lemmas, words,
          last, subject, rendered

tables == <<suras, ayas, translations, translatedAyas, roots, lemmas, words>>
vars == <<suras, ayas, translations, translatedAyas, roots, lemmas, words,
          last, subject, rendered>>

\* ---- the outcomes of a write ---------------------------------------------
OK == "ok"
UniquenessViolation == "UniquenessViolation"
ForeignKeyViolation == "ForeignKeyViolation"

\* the number of rows in the store
RowCount ==
    Cardinality(suras) + Cardinality(ayas) + Cardinality(translations)
        + Cardinality(translatedAyas) + Cardinality(roots)
        + Cardinality(lemmas) + Cardinality(words)

\* ---- row lookups -----------------------------------------------------------
SuraPks == {s.number : s \in suras}
AyaPks == {a.id : a \in ayas}
TranslationPks == {q.id : q \in translations}
RootPks == {r.id : r \in roots}
LemmaPks == {l.id : l \in lemmas}
TranslatedAyaPks == {t.id : t \in translatedAyas}
WordPks == {w.id : w \in words}

AyaById(id) == CHOOSE a \in ayas : a.id = id

\* ---- declared constraints --------------------------------------------------
\* Sura.number is the primary key
SuraUnique(row) == row.number \notin SuraPks

\* (mutant) the number alone is the key, in every Sura
AyaUnique_NumberOnly(row) == \A a \in ayas : a.number # row.number

\* Aya: unique_together = ('number', 'sura')
AyaUnique(row) ==
    \A a \in ayas : ~(a.number = row.number /\ a.sura = row.sura)

\* Aya.sura = ForeignKey(Sura)
AyaForeignKeys(row) == row.sura \in SuraPks

\* (mutant) the sura is part of the key
TranslatedAyaUnique_WithSura(row) ==
    \A t \in translatedAyas :
        ~(t.sura = row.sura /\ t.aya = row.aya
              /\ t.translation = row.translation)

\* TranslatedAya: unique_together = ('aya', 'translation')
TranslatedAyaUnique(row) ==
    \A t \in translatedAyas :
        ~(t.aya = row.aya /\ t.translation = row.translation)

\* TranslatedAya.sura, .aya, .translation are ForeignKeys, none nullable
TranslatedAyaForeignKeys(row) ==
    /\ row.sura \in SuraPks
    /\ row.aya \in AyaPks
    /\ row.translation \in TranslationPks

\* Root.letters: unique=True
RootUnique(row) == \A r \in roots : r.letters # row.letters

\* Lemma.token: unique=True
LemmaUnique(row) == \A l \in lemmas : l.token # row.token

\* Lemma.root = ForeignKey(Root, null=True)
LemmaForeignKeys(row) == row.root = NULL \/ row.root \in RootPks

\* (mutant) the sura is part of the key
WordUnique_WithSura(row) ==
    \A w \in words :
        ~(w.sura = row.sura /\ w.aya = row.aya /\ w.number = row.number)

\* Word: unique_together = ('aya', 'number')
WordUnique(row) ==
    \A w \in words : ~(w.aya = row.aya /\ w.number = row.number)

\* Word.sura, .aya, .lemma are required ForeignKeys; Word.root is null=True
WordForeignKeys(row) ==
    /\ row.sura \in SuraPks
    /\ row.aya \in AyaPks
    /\ row.root = NULL \/ row.root \in RootPks
    /\ row.lemma \in LemmaPks

\* The integrity errors a row raises: one per kind of constraint it breaks.
\* The schema declares the constraints and no order in which they are
\* tested, so a row that breaks both kinds may be refused with either.
Violations(unique, fks) ==
    (IF unique THEN {} ELSE {UniquenessViolation})
        \cup (IF fks THEN {} ELSE {ForeignKeyViolation})

Refused(op, errors) ==
    /\ errors # {}
    /\ \E e \in errors : last' = [op |-> op, result |-> e]
    /\ UNCHANGED <<tables, subject, rendered>>

Accepted(op) == last' = [op |-> op, result |-> OK]

\* ---- inserts ---------------------------------------------------------------
\* A row is written when it breaks no declared constraint. The AutoField id
\* of a new row is assigned by the database: some key no row of the table
\* holds.
InsertSura(row) ==
    LET errors == Violations(SuraUnique(row), TRUE) IN
    \/ Refused("InsertSura", errors)
    \/ /\ errors = {}
       /\ suras' = suras \cup {row}
       /\ Accepted("InsertSura")
       /\ UNCHANGED <<ayas, translations, translatedAyas, roots, lemmas,
                      words, subject, rendered>>

InsertAya(row) ==
    LET errors == Violations(AyaUnique(row), AyaForeignKeys(row)) IN
    \/ Refused("InsertAya", errors)
    \/ /\ errors = {}
       /\ \E id \in AyaIds \ AyaPks :
              ayas' = ayas \cup {[id |-> id, number |-> row.number,
                                  sura |-> row.sura, text |-> row.text]}
       /\ Accepted("InsertAya")
       /\ UNCHANGED <<suras, translations, translatedAyas, roots, lemmas,
                      words, subject, rendered>>

InsertTranslation ==
    /\ \E id \in TranslationIds \ TranslationPks :
           translations' = translations \cup {[id |-> id]}
    /\ Accepted("InsertTranslation")
    /\ UNCHANGED <<suras, ayas, translatedAyas, roots, lemmas, words,
                   subject, rendered>>

InsertTranslatedAya(row) ==
    LET errors == Violations(TranslatedAyaUnique(row),
                             TranslatedAyaForeignKeys(row)) IN
    \/ Refused("InsertTranslatedAya", errors)
    \/ /\ errors = {}
       /\ \E id \in TranslatedAyaIds \ TranslatedAyaPks :
              translatedAyas' = translatedAyas \cup
                  {[id |-> id, sura |-> row.sura, aya |-> row.aya,
                    translation |-> row.translation]}
       /\ Accepted("InsertTranslatedAya")
       /\ UNCHANGED <<suras, ayas, translations, roots, lemmas, words,
                      subject, rendered>>

InsertRoot(row) ==
    LET errors == Violations(RootUnique(row), TRUE) IN
    \/ Refused("InsertRoot", errors)
    \/ /\ errors = {}
       /\ \E id \in RootIds \ RootPks :
              roots' = roots \cup {[id |-> id, letters |-> row.letters]}
       /\ Accepted("InsertRoot")
       /\ UNCHANGED <<suras, ayas, translations, translatedAyas, lemmas,
                      words, subject, rendered>>

InsertLemma(row) ==
    LET errors == Violations(LemmaUnique(row), LemmaForeignKeys(row)) IN
    \/ Refused("InsertLemma", errors)
    \/ /\ errors = {}
       /\ \E id \in LemmaIds \ LemmaPks :
              lemmas' = lemmas \cup {[id |-> id, token |-> row.token,
                                      root |-> row.root]}
       /\ Accepted("InsertLemma")
       /\ UNCHANGED <<suras, ayas, translations, translatedAyas, roots,
                      words, subject, rendered>>

InsertWord(row) ==
    LET errors == Violations(WordUnique(row), WordForeignKeys(row)) IN
    \/ Refused("InsertWord", errors)
    \/ /\ errors = {}
       /\ \E id \in WordIds \ WordPks :
              words' = words \cup
                  {[id |-> id, sura |-> row.sura, aya |-> row.aya,
                    number |-> row.number, token |-> row.token,
                    root |-> row.root, lemma |-> row.lemma]}
       /\ Accepted("InsertWord")
       /\ UNCHANGED <<suras, ayas, translations, translatedAyas, roots,
                      lemmas, subject, rendered>>

\* ---- cascading deletes ---------------------------------------------------
\* Every ForeignKey of the schema is on_delete=CASCADE: deleting a row
\* collects the rows that point at it, then the rows that point at those.

\* rows collected with a set of Ayas: TranslatedAya.aya, Word.aya
AyaDependents(ids) ==
    [translatedAyas |-> {t \in translatedAyas : t.aya \in ids},
     words |-> {w \in words : w.aya \in ids}]

\* (mutant) Word.lemma does not cascade
LemmaDependents_None(ids) == {}

\* rows collected with a set of Lemmas: Word.lemma
LemmaDependents(ids) == {w \in words : w.lemma \in ids}

\* (mutant) only the rows that name the Sura are collected
SuraDependents_DirectOnly(n) ==
    [ayas |-> {a \in ayas : a.sura = n},
     translatedAyas |-> {t \in translatedAyas : t.sura = n},
     words |-> {w \in words : w.sura = n}]

\* rows collected with a Sura: Aya.sura, TranslatedAya.sura, Word.sura, and
\* the dependents of the collected Ayas
SuraDependents(n) ==
    LET as == {a \in ayas : a.sura = n}
        below == AyaDependents({a.id : a \in as})
    IN  [ayas |-> as,
         translatedAyas |->
             {t \in translatedAyas : t.sura = n} \cup below.translatedAyas,
         words |-> {w \in words : w.sura = n} \cup below.words]

\* (mutant) only the rows that name the Root are collected
RootDependents_DirectOnly(id) ==
    [lemmas |-> {l \in lemmas : l.root = id},
     words |-> {w \in words : w.root = id}]

\* rows collected with a Root: Lemma.root, Word.root, and the dependents of
\* the collected Lemmas
RootDependents(id) ==
    LET ls == {l \in lemmas : l.root = id}
    IN  [lemmas |-> ls,
         words |-> {w \in words : w.root = id}
                       \cup LemmaDependents({l.id : l \in ls})]

Deleted(op) == last' = [op |-> op, result |-> OK]

DeleteSura(n) ==
    /\ n \in SuraPks
    /\ LET dep == SuraDependents(n) IN
       /\ suras' = {s \in suras : s.number # n}
       /\ ayas' = ayas \ dep.ayas
       /\ translatedAyas' = translatedAyas \ dep.translatedAyas
       /\ words' = words \ dep.words
    /\ Deleted("DeleteSura")
    /\ UNCHANGED <<translations, roots, lemmas, subject, rendered>>

DeleteAya(id) ==
    /\ id \in AyaPks
    /\ LET dep == AyaDependents({id}) IN
       /\ ayas' = {a \in ayas : a.id # id}
       /\ translatedAyas' = translatedAyas \ dep.translatedAyas
       /\ words' = words \ dep.words
    /\ Deleted("DeleteAya")
    /\ UNCHANGED <<suras, translations, roots, lemmas, subject,
                   rendered>>

DeleteTranslation(id) ==
    /\ id \in TranslationPks
    /\ translations' = {q \in translations : q.id # id}
    /\ translatedAyas' = {t \in translatedAyas : t.translation # id}
    /\ Deleted("DeleteTranslation")
    /\ UNCHANGED <<suras, ayas, roots, lemmas, words, subject,
                   rendered>>

DeleteTranslatedAya(id) ==
    /\ id \in TranslatedAyaPks
    /\ translatedAyas' = {t \in translatedAyas : t.id # id}
    /\ Deleted("DeleteTranslatedAya")
    /\ UNCHANGED <<suras, ayas, translations, roots, lemmas, words,
                   subject, rendered>>

DeleteRoot(id) ==
    /\ id \in RootPks
    /\ LET dep == RootDependents(id) IN
       /\ roots' = {r \in roots : r.id # id}
       /\ lemmas' = lemmas \ dep.lemmas
       /\ words' = words \ dep.words
    /\ Deleted("DeleteRoot")
    /\ UNCHANGED <<suras, ayas, translations, translatedAyas,
                   subject, rendered>>

DeleteLemma(id) ==
    /\ id \in LemmaPks
    /\ lemmas' = {l \in lemmas : l.id # id}
    /\ words' = words \ LemmaDependents({id})
    /\ Deleted("DeleteLemma")
    /\ UNCHANGED <<suras, ayas, translations, translatedAyas, roots,
                   subject, rendered>>

DeleteWord(id) ==
    /\ id \in WordPks
    /\ words' = {w \in words : w.id # id}
    /\ Deleted("DeleteWord")
    /\ UNCHANGED <<suras, ayas, translations, translatedAyas, roots, lemmas,
                   subject, rendered>>

\* ---- the store -------------------------------------------------------------
NoRow == [none |-> TRUE]
Nothing == [op |-> "none", value |-> <<>>]

Init ==
    /\ suras = {} /\ ayas = {} /\ translations = {} /\ translatedAyas = {}
    /\ roots = {} /\ lemmas = {} /\ words = {}
    /\ last = [op |-> "none", result |-> OK]
    /\ subject = NoRow
    /\ rendered = Nothing

SuraRows ==
    [number : SuraNumbers, name : Letters, tname : LatinNames]
AyaRows == [number : Numbers, sura : SuraNumbers, text : Letters]
TranslatedAyaRows ==
    [sura : SuraNumbers, aya : AyaIds, translation : TranslationIds]
RootRows == [letters : Letters]
LemmaRows == [token : Tokens, root : RootIds \cup {NULL}]
WordRows ==
    [sura : SuraNumbers, aya : AyaIds, number : Numbers,
     token : Letters, root : RootIds \cup {NULL}, lemma : LemmaIds]

\* Every operation on the store; an insert is taken while the store holds
\* at most MaxRows rows after it.
Next ==
    \/ \E row \in SuraRows : InsertSura(row) /\ RowCount' <= MaxRows
    \/ \E row \in AyaRows : InsertAya(row) /\ RowCount' <= MaxRows
    \/ InsertTranslation /\ RowCount' <= MaxRows
    \/ \E row \in TranslatedAyaRows :
           InsertTranslatedAya(row) /\ RowCount' <= MaxRows
    \/ \E row \in RootRows : InsertRoot(row) /\ RowCount' <= MaxRows
    \/ \E row \in LemmaRows : InsertLemma(row) /\ RowCount' <= MaxRows
    \/ \E row \in WordRows : InsertWord(row) /\ RowCount' <= MaxRows
    \/ \E n \in SuraNumbers : DeleteSura(n)
    \/ \E id \in AyaIds : DeleteAya(id)
    \/ \E id \in TranslationIds : DeleteTranslation(id)
    \/ \E id \in TranslatedAyaIds : DeleteTranslatedAya(id)
    \/ \E id \in RootIds : DeleteRoot(id)
    \/ \E id \in LemmaIds : DeleteLemma(id)
    \/ \E id \in WordIds : DeleteWord(id)

Spec == Init /\ [][Next]_vars

\* The word index alone: the operations on the tables a Word refers to,
\* while the store holds at most MaxWordsRows rows.
NextWords ==
    \/ \E row \in SuraRows : InsertSura(row) /\ RowCount' <= MaxWordsRows
    \/ \E row \in AyaRows : InsertAya(row) /\ RowCount' <= MaxWordsRows
    \/ \E row \in RootRows : InsertRoot(row) /\ RowCount' <= MaxWordsRows
    \/ \E row \in LemmaRows : InsertLemma(row) /\ RowCount' <= MaxWordsRows
    \/ \E row \in WordRows : InsertWord(row) /\ RowCount' <= MaxWordsRows
    \/ \E n \in SuraNumbers : DeleteSura(n)
    \/ \E id \in AyaIds : DeleteAya(id)
    \/ \E id \in RootIds : DeleteRoot(id)
    \/ \E id \in LemmaIds : DeleteLemma(id)
    \/ \E id \in WordIds : DeleteWord(id)

SpecWords == Init /\ [][NextWords]_vars

\* ---- presentation helpers ---------------------------------------------------
\* quran.buckwalter.unicode_to_buckwalter: each Arabic letter is replaced by
\* its Buckwalter letter (alef A, beh b, seen s, lam l, meem m, heh h); any
\* other character is kept.
BuckwalterLetter(c) ==
    CASE c = 1575 -> 65
      [] c = 1576 -> 98
      [] c = 1587 -> 115
      [] c = 1604 -> 108
      [] c = 1605 -> 109
      [] c = 1607 -> 104
      [] OTHER -> c

unicode_to_buckwalter(text) ==
    [i \in 1..Len(text) |-> BuckwalterLetter(text[i])]

Sura__str__(self) == self.tname

\* (mutant) the text as stored, as Aya.__unicode__ returns it
Aya__unicode__(self) == self.text

Aya__str__(self) == unicode_to_buckwalter(self.text)

Root__str__(self) == unicode_to_buckwalter(self.letters)

Lemma__str__(self) == unicode_to_buckwalter(self.token)

Word__str__(self) == unicode_to_buckwalter(self.token)

\* (mutant) the digit follows the number of the Aya
end_marker_numbered(self) == <<64831, 1632 + self.number, 64830>>

\* mark_safe('&#64831;&#1633;&#64830;'): three numeric character references,
\* written here as the code points they name
end_marker(self) == <<64831, 1633, 64830>>

\* str() of a non-negative integer: its decimal digits
RECURSIVE str(_)
str(n) ==
    IF n < 10 THEN <<48 + n>> ELSE Append(str(n \div 10), 48 + (n % 10))

Aya_get_absolute_url(self) ==
    <<"quran_aya", <<str(self.sura), str(self.number)>>>>

Word_get_absolute_url(self) ==
    <<"quran_word",
      <<str(self.sura), str(AyaById(self.aya).number), str(self.number)>>>>

\* ---- rendering an instance ---------------------------------------------------
Instances ==
    [kind : {"Sura"}, number : SuraNumbers, name : ViewTexts,
     tname : ViewTexts]
        \cup [kind : {"Aya"}, number : Numbers, sura : SuraNumbers,
              text : ViewTexts]
        \cup [kind : {"Root"}, letters : ViewTexts]
        \cup [kind : {"Lemma"}, token : ViewTexts]
        \cup [kind : {"Word"}, number : Numbers, token : ViewTexts]

InitView ==
    /\ suras = {} /\ ayas = {} /\ translations = {} /\ translatedAyas = {}
    /\ roots = {} /\ lemmas = {} /\ words = {}
    /\ last = [op |-> "none", result |-> OK]
    /\ subject \in Instances
    /\ rendered = Nothing

Render__str__ ==
    /\ rendered' =
           [op |-> "__str__",
            value |-> CASE subject.kind = "Sura" -> Sura__str__(subject)
                        [] subject.kind = "Aya" -> Aya__str__(subject)
                        [] subject.kind = "Root" -> Root__str__(subject)
                        [] subject.kind = "Lemma" -> Lemma__str__(subject)
                        [] subject.kind = "Word" -> Word__str__(subject)]
    /\ UNCHANGED <<tables, last, subject>>

RenderEndMarker ==
    /\ subject.kind = "Aya"
    /\ rendered' = [op |-> "end_marker", value |-> end_marker(subject)]
    /\ UNCHANGED <<tables, last, subject>>

NextView == Render__str__ \/ RenderEndMarker

SpecView == InitView /\ [][NextView]_vars

\* ---- properties -------------------------------------------------------------
NoNewRows ==
    /\ suras' \subseteq suras /\ ayas' \subseteq ayas
    /\ translations' \subseteq translations
    /\ translatedAyas' \subseteq translatedAyas
    /\ roots' \subseteq roots /\ lemmas' \subseteq lemmas
    /\ words' \subseteq words

\* what a DeleteSura step does to the tables
C1_DeleteSuraStep ==
    last'.op = "DeleteSura" =>
        \E n \in SuraPks :
            LET sAyas == {a.id : a \in {x \in ayas : x.sura = n}} IN
            /\ NoNewRows
            /\ \A s \in suras : s \in suras' <=> s.number # n
            /\ \A a \in ayas : a \in ayas' <=> a.sura # n
            /\ \A w \in words :
                   w \in words' <=> (w.sura # n /\ w.aya \notin sAyas)
            /\ \A t \in translatedAyas :
                   t \in translatedAyas' <=>
                       (t.sura # n /\ t.aya \notin sAyas)
            /\ UNCHANGED <<translations, roots, lemmas>>

\* C1: deleting Sura S leaves no Aya, Word or TranslatedAya that references
\* S, directly or through an Aya of S, and keeps every other row of every
\* table as it was.
C1_DeleteSuraCascades == [][C1_DeleteSuraStep]_vars

\* a Sura was deleted; an Aya of another Sura and a Word on it are still
\* there
C1_Witness ==
    /\ last.op = "DeleteSura"
    /\ \E a \in ayas : \E w \in words : w.aya = a.id

AyaPairsDistinct ==
    \A a, b \in ayas : (a.sura = b.sura /\ a.number = b.number) => a = b

C2_InsertAyaStep ==
    last'.op = "InsertAya" =>
        \A row \in AyaRows :
            InsertAya(row) =>
                IF \E a \in ayas : a.sura = row.sura /\ a.number = row.number
                THEN last'.result = UniquenessViolation /\ UNCHANGED tables
                ELSE row.sura \in SuraPks =>
                         /\ last'.result = OK
                         /\ \E a \in ayas' \ ayas :
                                /\ ayas' = ayas \cup {a}
                                /\ a.sura = row.sura
                                /\ a.number = row.number
                                /\ a.text = row.text

\* C2: no two Ayas of one Sura share a number; an insert of an existing
\* (sura, number) pair fails with UniquenessViolation and changes no table;
\* the first insert of a pair into an existing Sura is written.  (The
\* invariant is stated by induction: it holds at the start and after every
\* step that changes the table.)
C2_AyaNumberUniqueInSura ==
    /\ AyaPairsDistinct
    /\ [][/\ ayas' # ayas => AyaPairsDistinct'
          /\ C2_InsertAyaStep]_vars

\* a second Aya with the pair of a stored one was refused, and a Sura holds
\* two Ayas
C2_Witness ==
    /\ last.op = "InsertAya" /\ last.result = UniquenessViolation
    /\ \E a, b \in ayas : a # b /\ a.sura = b.sura

\* what a DeleteRoot step does to the tables
C3_DeleteRootStep ==
    last'.op = "DeleteRoot" =>
        \E r \in RootPks :
            LET rLemmas == {l.id : l \in {x \in lemmas : x.root = r}} IN
            /\ NoNewRows
            /\ \A x \in roots : x \in roots' <=> x.id # r
            /\ \A l \in lemmas : l \in lemmas' <=> l.root # r
            /\ \A w \in words :
                   w \in words' <=> (w.root # r /\ w.lemma \notin rLemmas)
            /\ UNCHANGED <<suras, ayas, translations, translatedAyas>>

WordPairsDistinct ==
    \A v, w \in words : (v.aya = w.aya /\ v.number = w.number) => v = w

C4_InsertWordStep ==
    last'.op = "InsertWord" =>
        IF last'.result = OK
        THEN \E w \in words' \ words :
                 /\ words' = words \cup {w}
                 /\ \A v \in words : ~(v.aya = w.aya /\ v.number = w.number)
        ELSE UNCHANGED tables

\* C4: no two Words of one Aya share a number; no insert creates a second
\* Word on an (aya, number) pair that is held: an InsertWord step either
\* writes one Word whose pair no stored Word held, or is refused and changes
\* no table.
C4_WordNumberUniqueInAya ==
    /\ WordPairsDistinct
    /\ [][/\ words' # words => WordPairsDistinct'
          /\ C4_InsertWordStep]_vars

\* a Word was refused for its (aya, number) pair while an Aya holds two Words
C4_Witness ==
    /\ last.op = "InsertWord" /\ last.result = UniquenessViolation
    /\ \E v, w \in words : v # w /\ v.aya = w.aya

TranslatedAyaPairsDistinct ==
    \A t, u \in translatedAyas :
        (t.aya = u.aya /\ t.translation = u.translation) => t = u

C5_InsertTranslatedAyaStep ==
    last'.op = "InsertTranslatedAya" =>
        \A row \in TranslatedAyaRows :
            (/\ InsertTranslatedAya(row)
             /\ \E t \in translatedAyas :
                    t.aya = row.aya /\ t.translation = row.translation)
                => last'.result # OK /\ UNCHANGED tables

\* C5: at most one TranslatedAya per (aya, translation); a second one is
\* refused whatever its sura, and changes no table.
C5_OneTranslatedAyaPerPair ==
    /\ TranslatedAyaPairsDistinct
    /\ [][/\ translatedAyas' # translatedAyas =>
                 TranslatedAyaPairsDistinct'
          /\ C5_InsertTranslatedAyaStep]_vars

\* a TranslatedAya was refused for its (aya, translation) pair while two
\* Suras exist, so that the refused row may carry either
C5_Witness ==
    /\ last.op = "InsertTranslatedAya"
    /\ last.result = UniquenessViolation
    /\ translatedAyas # {}
    /\ Cardinality(suras) > 1

\* C6: end_marker returns one fixed sequence for every Aya, whatever its
\* number, sura and text: the character references 64831, 1633, 64830
\* (U+FD3F, U+0661, U+FD3E).
C6_EndMarkerFixed ==
    rendered.op = "end_marker" =>
        /\ Len(rendered.value) = 3
        /\ rendered.value[1] = 64831
        /\ rendered.value[2] = 1633
        /\ rendered.value[3] = 64830

\* C6 as stated: the sequence is made of the code points U+FD37 (64823) and
\* U+06C1 (1729).
C6_AsStated ==
    rendered.op = "end_marker" =>
        {rendered.value[i] : i \in 1..Len(rendered.value)} = {64823, 1729}

\* the marker of an Aya whose number is not the digit the marker shows
C6_Witness ==
    /\ rendered.op = "end_marker"
    /\ subject.number = 2
    /\ subject.text # <<>>

\* out is text with every Arabic letter replaced by its Buckwalter letter
Transliterates(text, out) ==
    /\ Len(out) = Len(text)
    /\ \A i \in 1..Len(text) : out[i] = BuckwalterLetter(text[i])

\* the string a __str__ step rendered, by the kind of its subject
C7_StrOfSubject ==
    rendered.op = "__str__" =>
        CASE subject.kind = "Sura" -> rendered.value = subject.tname
          [] subject.kind = "Aya" ->
                 Transliterates(subject.text, rendered.value)
          [] subject.kind = "Root" ->
                 Transliterates(subject.letters, rendered.value)
          [] subject.kind = "Lemma" ->
                 Transliterates(subject.token, rendered.value)
          [] subject.kind = "Word" ->
                 Transliterates(subject.token, rendered.value)

\* C7: __str__ of an Aya, Root, Lemma or Word is the transliteration of its
\* text, letters or token; __str__ of a Sura is its stored tname as it is,
\* with no transliteration of name; rendering changes neither the instance
\* nor any table.
C7_StrTransliterates ==
    []C7_StrOfSubject
        /\ [][rendered' # rendered => UNCHANGED <<tables, subject>>]_vars

\* C7 as stated: __str__ of each of the five, Sura included, is the
\* transliteration of its Arabic text field (Sura.name).
C7_AsStated ==
    rendered.op = "__str__" =>
        CASE subject.kind = "Sura" ->
                 Transliterates(subject.name, rendered.value)
          [] subject.kind = "Aya" ->
                 Transliterates(subject.text, rendered.value)
          [] subject.kind = "Root" ->
                 Transliterates(subject.letters, rendered.value)
          [] subject.kind = "Lemma" ->
                 Transliterates(subject.token, rendered.value)
          [] subject.kind = "Word" ->
                 Transliterates(subject.token, rendered.value)

\* an Aya whose text holds Arabic letters was rendered, to another string
C7_Witness ==
    /\ rendered.op = "__str__"
    /\ subject.kind = "Aya"
    /\ Len(subject.text) = MaxLen
    /\ rendered.value # subject.text

\* C8 (as stated): the sura of every Word and of every TranslatedAya is the
\* sura of its aya.
C8_OwnershipTree ==
    /\ \A w \in words :
           w.aya \in AyaPks => w.sura = AyaById(w.aya).sura
    /\ \A t \in translatedAyas :
           t.aya \in AyaPks => t.sura = AyaById(t.aya).sura

\* ---- referential integrity -------------------------------------------------
ReferentialIntegrity ==
    /\ \A a \in ayas : a.sura \in SuraPks
    /\ \A t \in translatedAyas :
           /\ t.sura \in SuraPks
           /\ t.aya \in AyaPks
           /\ t.translation \in TranslationPks
    /\ \A l \in lemmas : l.root = NULL \/ l.root \in RootPks
    /\ \A w \in words :
           /\ w.sura \in SuraPks
           /\ w.aya \in AyaPks
           /\ w.lemma \in LemmaPks
           /\ w.root = NULL \/ w.root \in RootPks

AyaParentMissing(row) == row.sura \notin SuraPks

TranslatedAyaParentMissing(row) ==
    \/ row.sura \notin SuraPks
    \/ row.aya \notin AyaPks
    \/ row.translation \notin TranslationPks

LemmaParentMissing(row) == row.root # NULL /\ row.root \notin RootPks

WordParentMissing(row) ==
    \/ row.sura \notin SuraPks
    \/ row.aya \notin AyaPks
    \/ row.lemma \notin LemmaPks
    \/ (row.root # NULL /\ row.root \notin RootPks)

AyaPairHeld(row) ==
    \E a \in ayas : a.sura = row.sura /\ a.number = row.number

TranslatedAyaPairHeld(row) ==
    \E t \in translatedAyas :
        t.aya = row.aya /\ t.translation = row.translation

LemmaTokenHeld(row) == \E l \in lemmas : l.token = row.token

WordPairHeld(row) ==
    \E w \in words : w.aya = row.aya /\ w.number = row.number

\* an accepted InsertWord step wrote one Word whose parents all existed
WordWrittenUnderParents ==
    \E w \in words' \ words :
        /\ words' = words \cup {w}
        /\ w.sura \in SuraPks /\ w.aya \in AyaPks /\ w.lemma \in LemmaPks
        /\ w.root = NULL \/ w.root \in RootPks

\* what an insert that names a missing parent does
C9_InsertStep ==
    \* a refusal with ForeignKeyViolation that changes no table meets the
    \* claim for whichever row it answers; the rows are gone through for
    \* the other outcomes
    \/ last'.result = ForeignKeyViolation /\ UNCHANGED tables
    \/ /\ last'.op = "InsertAya" =>
              \A row \in AyaRows :
                  (AyaParentMissing(row) /\ InsertAya(row)) =>
                      /\ last'.result # OK /\ UNCHANGED tables
                      /\ ~AyaPairHeld(row) =>
                             last'.result = ForeignKeyViolation
       /\ last'.op = "InsertTranslatedAya" =>
              \A row \in TranslatedAyaRows :
                  (/\ TranslatedAyaParentMissing(row)
                   /\ InsertTranslatedAya(row))
                      => /\ last'.result # OK /\ UNCHANGED tables
                         /\ ~TranslatedAyaPairHeld(row) =>
                                last'.result = ForeignKeyViolation
       /\ last'.op = "InsertLemma" =>
              \A row \in LemmaRows :
                  (LemmaParentMissing(row) /\ InsertLemma(row)) =>
                      /\ last'.result # OK /\ UNCHANGED tables
                      /\ ~LemmaTokenHeld(row) =>
                             last'.result = ForeignKeyViolation
       /\ last'.op = "InsertWord" =>
              /\ last'.result = OK => WordWrittenUnderParents
              /\ last'.result # OK => UNCHANGED tables
              /\ last'.result = UniquenessViolation =>
                     \A row \in WordRows :
                         (WordParentMissing(row) /\ ~WordPairHeld(row)) =>
                             ~InsertWord(row)

\* C9: referential integrity holds in every state; an insert with a
\* reference to a missing parent row is refused and changes no table, and
\* it is refused with ForeignKeyViolation whenever the row breaks no
\* uniqueness constraint as well.  (For InsertWord the step is read by its
\* outcome: a written Word has its parents, a refusal changes nothing, and
\* a UniquenessViolation is never the answer to a row whose only fault is
\* a missing parent.)
C9_ReferentialIntegrity ==
    /\ ReferentialIntegrity
    /\ [][/\ tables' # tables => ReferentialIntegrity'
          /\ C9_InsertStep]_vars

\* the same, with ForeignKeyViolation as the only answer
C9_AsStatedStep ==
    /\ last'.op = "InsertAya" =>
           \A row \in AyaRows :
               (AyaParentMissing(row) /\ InsertAya(row)) =>
                   last'.result = ForeignKeyViolation /\ UNCHANGED tables
    /\ last'.op = "InsertTranslatedAya" =>
           \A row \in TranslatedAyaRows :
               (TranslatedAyaParentMissing(row) /\ InsertTranslatedAya(row))
                   => last'.result = ForeignKeyViolation /\ UNCHANGED tables
    /\ last'.op = "InsertLemma" =>
           \A row \in LemmaRows :
               (LemmaParentMissing(row) /\ InsertLemma(row)) =>
                   last'.result = ForeignKeyViolation /\ UNCHANGED tables
    /\ last'.op = "InsertWord" =>
           /\ last'.result = OK => WordWrittenUnderParents
           /\ last'.result # OK => UNCHANGED tables
           /\ last'.result = UniquenessViolation =>
                  \A row \in WordRows :
                      WordParentMissing(row) => ~InsertWord(row)

\* C9 as stated: every insert with a reference to a missing parent row is
\* refused with ForeignKeyViolation.
C9_AsStated ==
    /\ ReferentialIntegrity
    /\ [][/\ tables' # tables => ReferentialIntegrity'
          /\ C9_AsStatedStep]_vars

\* a Word was refused for a missing parent after a cascading delete, while
\* Words are stored
C9_Witness ==
    /\ last.op = "InsertWord" /\ last.result = ForeignKeyViolation
    /\ words # {}
    /\ Cardinality(lemmas) = 1

\* C10 (as stated): distinct Words have distinct descriptors, and distinct
\* Ayas have distinct descriptors.
C10_DescriptorIdentifies ==
    /\ \A v, w \in words :
           (v.aya \in AyaPks /\ w.aya \in AyaPks /\ v # w) =>
               Word_get_absolute_url(v) # Word_get_absolute_url(w)
    /\ \A a, b \in ayas :
           a # b => Aya_get_absolute_url(a) # Aya_get_absolute_url(b)

====
